---- MODULE Spec2Model ----
(***************************************************************************)
(* Connection (src/lib/Connection.js): the connection lifecycle state      *)
(* machine, the reconnection policy and the callback registry of the       *)
(* socket client, over an abstract engine.io-style transport.              *)
(*                                                                         *)
(* The object ("this") and the transports it has opened are the variables; *)
(* every method is an operator from an object record to an object record,  *)
(* so that a method calling another (connect from _reconnect, onClose from *)
(* inside socket.close()) is one step, as in the single-threaded code.     *)
(***************************************************************************)
EXTENDS Integers, Sequences, FiniteSets, TLC

\* ------------------------------------------------------------------ bounds
MaxRetries == 2      \* options.retriesAmount ranges over 0..MaxRetries
MaxSockets == 3      \* transport instances tracked at once
MaxTimers == 3       \* reconnection timer handles tracked at once

\* --------------------------------------------------------------- constants
NoSocket == 0        \* this.socket = null
NoTimer == 0         \* this.reconnectTimeout = null
NoToken == ""        \* this.token = null
NoReq == ""          \* envelope without reqId
NoAction == ""       \* envelope without action
Absent == "absent"   \* this._callbacks[reqId] is undefined

SocketIds == 1..MaxSockets
TimerIds == 1..MaxTimers

\* this.states
States == {"initialized", "connecting", "connected", "disconnected",
           "closing", "closed", "failed"}

\* Message.ACTION.CONNECTED, the reserved handshake action
CONNECTED == "connected"

\* The key under which the request timer looks its entry up: the timer is
\* this._execCallback.bind(this, err, null), so reqId is bound to the Error
\* object and this._callbacks[err] reads the property String(err).
TimeoutKey(reqId) == "Error: Operation timeout for callback: " \o reqId

\* Request ids the callers use. The third is a legal id that happens to be the
\* string form of the first one's timeout error.
ReqIds == {"r1", "r2", TimeoutKey("r1")}

\* Ids randomReqId can return: 24 alphanumeric characters and a suffix.
RandomReqIds == {"r1", "r2"}

\* Listeners on a transport: <<event, handler>>.
OnceOpen == <<"open", "once:onOpen">>
OnceError == <<"error", "once:connectError">>
OnClose == <<"close", "onClose">>
OnError == <<"error", "onError">>
OnMessage == <<"message", "onMessage">>
Listeners == {OnceOpen, OnceError, OnClose, OnError, OnMessage}

NoTransport == [readyState |-> "none", listeners |-> {}]

\* Inbound envelopes, already decoded by MessageMaster.parse: those without a
\* reqId, those with one, and the handshakes that carry identity fields.
PlainEnvelopes ==
  [reqId : {NoReq}, action : {NoAction, "event", CONNECTED},
   clientId : {""}, connectionId : {""}, socketId : {""}]

CorrelatedEnvelopes ==
  [reqId : ReqIds, action : {NoAction, "event", CONNECTED},
   clientId : {""}, connectionId : {""}, socketId : {""}]

IdentityEnvelopes ==
  [reqId : {NoReq}, action : {CONNECTED},
   clientId : {"", "c1"}, connectionId : {"", "k9"}, socketId : {"", "s7"}]

Envelopes == PlainEnvelopes \cup CorrelatedEnvelopes \cup IdentityEnvelopes

\* What the authCallback hands to its completion function: (err, tokenOrData).
AuthResults ==
  [err : {"authError"}, kind : {"undefined"}, token : {NoToken}]
  \cup [err : {""}, kind : {"undefined"}, token : {NoToken}]
  \cup [err : {""}, kind : {"string", "object"}, token : {NoToken, "tcb"}]

\* No authCallback completion.
NoAuth == [err |-> "", kind |-> "none", token |-> NoToken]

\* The constructor's options.
OptionSets ==
  [secret : BOOLEAN, token : {NoToken, "topt"},
   authCallback : {"none", "sync", "async"},
   noAutoConnect : BOOLEAN, autoReconnect : BOOLEAN,
   retriesAmount : 0..MaxRetries]

VARIABLES
  options,           \* this.options and this.secret, as far as read later
  state,             \* this.state
  token,             \* this.token
  clientId,          \* this.clientId
  connectionId,      \* this.connectionId
  socket,            \* this.socket
  sockets,           \* the transports opened so far that can still act
  reconnectTimeout,  \* this.reconnectTimeout
  timers,            \* reconnection timers scheduled and not yet fired
  currentRetries,    \* this.currentRetries
  callbacks,         \* this._callbacks: reqId -> the cb stored, or Absent
  reqTimer,          \* reqId -> the state of the entry's timeout timer
  calls,             \* reqId -> what the handler registered last was called with
  authPending,       \* the asynchronous authCallback has not completed yet
  constructed,       \* the constructor returned an object
  autoConnects,      \* connect() calls made by the timer since the last handshake
  episode,           \* an unexpected close has happened since the last handshake
  last               \* the handler that ran last and what it did

vars == <<options, state, token, clientId, connectionId, socket, sockets,
          reconnectTimeout, timers, currentRetries, callbacks, reqTimer, calls,
          authPending, constructed, autoConnects, episode, last>>

\* ------------------------------------------------------------ the object
\* The object as a record, with what the handler running now has done so far:
\* the events it emitted, whether it threw, how often it entered connect(),
\* whether it opened a transport, armed the reconnection timer, and the calls
\* it made to the cb a caller passed to sendCallback.
This ==
  [options |-> options, state |-> state, token |-> token, clientId |-> clientId,
   connectionId |-> connectionId, socket |-> socket, sockets |-> sockets,
   reconnectTimeout |-> reconnectTimeout, timers |-> timers,
   currentRetries |-> currentRetries, callbacks |-> callbacks,
   reqTimer |-> reqTimer, calls |-> calls, autoConnects |-> autoConnects,
   episode |-> episode,
   emitted |-> <<>>, thrown |-> FALSE, connects |-> 0, opened |-> FALSE,
   armed |-> FALSE, callerCb |-> <<>>]

\* The envelope of an event that carries none.
NoData ==
  [reqId |-> NoReq, action |-> NoAction, clientId |-> "", connectionId |-> "",
   socketId |-> ""]

\* EventEmitter.emit(event, arg) for an argument that is no envelope, arg, or
\* is one, data.
emitData(t, event, arg, data) ==
  [t EXCEPT !.emitted = Append(@, [event |-> event, arg |-> arg, data |-> data])]

emit(t, event, arg) == emitData(t, event, arg, NoData)

\* EventEmitter.emit('error', err): thrown when the host listens to no 'error'.
emitError(t, err, listening) ==
  IF listening THEN emit(t, "error", err) ELSE [t EXCEPT !.thrown = TRUE]

hasAuth(t) == t.token # NoToken \/ t.options.secret

fail(t, err) ==
  emit([t EXCEPT !.state = "failed"], "failed",
       IF err = "" THEN "Something wrong" ELSE err)

\* socket.removeAllListeners(event)
removeAllListeners(sock, event) ==
  [sock EXCEPT !.listeners = {l \in @ : l[1] # event}]

clearSocketListeners(t) ==
  IF t.socket = NoSocket THEN t
  ELSE [t EXCEPT !.sockets[t.socket] =
          removeAllListeners(removeAllListeners(removeAllListeners(
            removeAllListeners(@, "open"), "close"), "error"), "message")]

\* The transport's close(): an opening or open transport starts closing, and
\* reports its close either inside the call (sync) or later.
socketClose(sock, sync) ==
  IF sock.readyState \in {"opening", "open"}
    THEN [sock EXCEPT !.readyState = IF sync THEN "closed" ELSE "closing"]
    ELSE sock

\* The smallest handle no scheduled timer uses.
FreshTimer(t) ==
  CHOOSE h \in TimerIds :
    /\ h \notin t.timers
    /\ \A g \in TimerIds : g < h => g \in t.timers

\* _setupReconnect without its test of the retry ceiling: it always schedules.
_setupReconnect_noCeiling(t) ==
  LET t1 == IF t.reconnectTimeout # NoTimer
              THEN [t EXCEPT !.timers = @ \ {t.reconnectTimeout},
                             !.reconnectTimeout = NoTimer]
              ELSE t
      h == FreshTimer(t1)
  IN [t1 EXCEPT !.reconnectTimeout = h, !.timers = @ \cup {h}, !.armed = TRUE]

\* _setupReconnect without the cancellation of the timer scheduled before.
_setupReconnect_noClear(t) ==
  IF t.currentRetries >= t.options.retriesAmount THEN t
  ELSE LET h == FreshTimer(t)
       IN [t EXCEPT !.reconnectTimeout = h, !.timers = @ \cup {h},
                    !.armed = TRUE]

_setupReconnect(t) ==
  LET t1 == IF t.reconnectTimeout # NoTimer
              THEN [t EXCEPT !.timers = @ \ {t.reconnectTimeout},
                             !.reconnectTimeout = NoTimer]
              ELSE t
  IN IF t1.currentRetries >= t1.options.retriesAmount THEN t1
     ELSE LET h == FreshTimer(t1)
          IN [t1 EXCEPT !.reconnectTimeout = h, !.timers = @ \cup {h},
                        !.armed = TRUE]

onClose(t) ==
  IF t.state = "closing"
    THEN emit([t EXCEPT !.state = "closed"], "closed", "")
    ELSE _setupReconnect(emit([t EXCEPT !.state = "disconnected",
                                        !.episode = TRUE],
                              "disconnected", ""))

close(t, sync) ==
  LET t1 == emit([t EXCEPT !.state = "closing"], "closing", "")
  IN IF t1.socket = NoSocket
       THEN [t1 EXCEPT !.thrown = TRUE]  \* this.socket.close() on null
       ELSE LET s == t1.socket
                reports == sync /\ t1.sockets[s].readyState \in {"opening", "open"}
                t2 == [t1 EXCEPT !.sockets[s] = socketClose(@, sync)]
                t3 == IF reports /\ OnClose \in t2.sockets[s].listeners
                        THEN onClose(t2) ELSE t2
            IN clearSocketListeners(t3)

\* The smallest id no tracked transport uses.
FreshSocket(t) ==
  CHOOSE s \in SocketIds :
    /\ t.sockets[s].readyState = "none"
    /\ \A r \in SocketIds : r < s => t.sockets[r].readyState # "none"

\* connect() that counts itself as a retry when it opens a transport.
connect_countsRetry(t, sync) ==
  LET t0 == [t EXCEPT !.connects = @ + 1]
  IN IF t0.state = "connected" /\ t0.socket = NoSocket
       THEN [t0 EXCEPT !.thrown = TRUE]
     ELSE IF t0.state = "connected" /\ t0.sockets[t0.socket].readyState = "open"
       THEN t0
     ELSE IF ~hasAuth(t0)
       THEN fail(t0, "No auth parameters")
     ELSE
       LET t1 == clearSocketListeners([t0 EXCEPT !.state = "connecting",
                                                 !.currentRetries = @ + 1])
           t2 == IF t1.socket # NoSocket
                   THEN [t1 EXCEPT !.sockets[t1.socket] = socketClose(@, sync)]
                   ELSE t1
           s == FreshSocket(t2)
       IN [t2 EXCEPT !.socket = s,
                     !.sockets[s] = [readyState |-> "opening",
                                     listeners |-> {OnceOpen, OnceError}],
                     !.opened = TRUE]

connect(t, sync) ==
  LET t0 == [t EXCEPT !.connects = @ + 1]
  IN IF t0.state = "connected" /\ t0.socket = NoSocket
       THEN [t0 EXCEPT !.thrown = TRUE]  \* this.socket.readyState on null
     ELSE IF t0.state = "connected" /\ t0.sockets[t0.socket].readyState = "open"
       THEN t0
     ELSE IF ~hasAuth(t0)
       THEN fail(t0, "No auth parameters")
     ELSE
       LET t1 == clearSocketListeners([t0 EXCEPT !.state = "connecting"])
           t2 == IF t1.socket # NoSocket
                   THEN [t1 EXCEPT !.sockets[t1.socket] = socketClose(@, sync)]
                   ELSE t1
           s == FreshSocket(t2)
       IN [t2 EXCEPT !.socket = s,
                     !.sockets[s] = [readyState |-> "opening",
                                     listeners |-> {OnceOpen, OnceError}],
                     !.opened = TRUE]

\* _reconnect without its test of options.autoReconnect.
_reconnect_ignoresAutoReconnect(t, sync) ==
  IF t.currentRetries >= t.options.retriesAmount THEN t
  ELSE IF t.state = "connected" THEN [t EXCEPT !.currentRetries = 0]
  ELSE IF t.state # "connecting" /\ t.state # "connected"
    THEN connect([t EXCEPT !.currentRetries = @ + 1,
                           !.autoConnects = @ + 1], sync)
  ELSE t

_reconnect(t, sync) ==
  IF ~t.options.autoReconnect THEN t
  ELSE IF t.currentRetries >= t.options.retriesAmount THEN t
  ELSE IF t.state = "connected" THEN [t EXCEPT !.currentRetries = 0]
  ELSE IF t.state # "connecting" /\ t.state # "connected"
    THEN connect([t EXCEPT !.currentRetries = @ + 1,
                           !.autoConnects = @ + 1], sync)
  ELSE t

onOpen(t) ==
  IF t.socket = NoSocket THEN t
  ELSE [clearSocketListeners(t) EXCEPT
          !.sockets[t.socket].listeners = @ \cup {OnClose, OnError, OnMessage}]

onError(t, err, listening) ==
  IF t.state = "connecting"
    THEN emit([t EXCEPT !.state = "failed"], "failed", "")
    ELSE emitError(t, err, listening)

\* The one-shot error listener connect() registers.
connectError(t, err) ==
  IF err = "TransportError" THEN _setupReconnect(fail(t, err)) ELSE t

\* ------------------------------------------------------- callback registry
\* The handlers a caller registers: "function" is one that returns at once,
\* "reentrant" is one that, the first time it runs, calls
\* this._execCallback(reqId, 'nested', null) for its own reqId.
Handlers == {"function", "reentrant"}

\* clearTimeout(this._callbacks[reqId].timeout)
clearRequestTimer(t, reqId) ==
  [t EXCEPT !.reqTimer[reqId] = IF @ = "armed" THEN "cleared" ELSE @]

\* _execCallback as the handler calls it from inside its first run: the
\* handler runs for the second time and does not call again.
_execCallbackNested(t, reqId, err, data) ==
  IF reqId \notin ReqIds \/ t.callbacks[reqId] = Absent THEN t
  ELSE LET t1 == clearRequestTimer(t, reqId)
           t2 == IF t1.callbacks[reqId] \in Handlers
                   THEN [t1 EXCEPT !.calls[reqId] = Append(@, <<err, data>>)]
                   ELSE t1
       IN [t2 EXCEPT !.callbacks[reqId] = Absent]

_execCallback(t, reqId, err, data) ==
  IF reqId \notin ReqIds \/ t.callbacks[reqId] = Absent THEN t
  ELSE LET cb == t.callbacks[reqId]
           t1 == clearRequestTimer(t, reqId)
           t2 == IF cb \in Handlers
                   THEN [t1 EXCEPT !.calls[reqId] = Append(@, <<err, data>>)]
                   ELSE t1
           t3 == IF cb = "reentrant"
                   THEN _execCallbackNested(t2, reqId, "nested", "null") ELSE t2
       IN [t3 EXCEPT !.callbacks[reqId] = Absent]

\* _addCallback without its test for a pending entry: the second registration
\* replaces the first and arms its own timer.
_addCallback_overwrite(t, reqId, cb) ==
  [t EXCEPT !.callbacks[reqId] = cb,
            !.reqTimer[reqId] = "armed",
            !.calls[reqId] = <<>>]

_addCallback(t, reqId, cb) ==
  IF t.callbacks[reqId] # Absent
    THEN [t EXCEPT !.thrown = TRUE]
    ELSE [t EXCEPT !.callbacks[reqId] = cb,
                   !.reqTimer[reqId] = "armed",
                   !.calls[reqId] = <<>>]

\* What the entry's timer runs when it expires:
\* this._execCallback.bind(this, err, null)(), that is reqId = err, err = null.
requestTimeout(t, reqId) ==
  _execCallback([t EXCEPT !.reqTimer[reqId] = "fired"],
                TimeoutKey(reqId), "null", "undefined")

send(t, message) ==
  IF t.socket = NoSocket THEN [t EXCEPT !.thrown = TRUE] ELSE t

sendCallback(t, message, cb, reqId) ==
  IF cb # "function" THEN t
  ELSE IF message # "object"
    THEN [t EXCEPT !.callerCb = Append(@, <<"Wrong message", "undefined">>)]
  ELSE LET t1 == _addCallback(t, reqId, message)
       IN IF t1.thrown THEN t1 ELSE send(t1, message)

\* onMessage that assigns the identity fields whether the envelope has them
\* or not.
onMessage_overwritesIdentity(t, data) ==
  LET t1 == IF data.reqId # NoReq /\ t.callbacks[data.reqId] # Absent
              THEN _execCallback(t, data.reqId, "null", "envelope")
              ELSE t
  IN IF data.action = NoAction THEN t1
     ELSE IF data.action = CONNECTED
       THEN emit([t1 EXCEPT
                    !.clientId = data.clientId,
                    !.connectionId = data.connectionId,
                    !.currentRetries = 0,
                    !.autoConnects = 0,
                    !.episode = FALSE,
                    !.state = "connected"], "connected", "")
     ELSE emitData(t1, "message", "", data)

\* onMessage that returns once it has completed a pending call.
onMessage_returnAfterCallback(t, data) ==
  IF data.reqId # NoReq /\ t.callbacks[data.reqId] # Absent
    THEN _execCallback(t, data.reqId, "null", "envelope")
  ELSE IF data.action = NoAction THEN t
  ELSE IF data.action = CONNECTED
    THEN emit([t EXCEPT
                 !.clientId = IF data.clientId # "" THEN data.clientId ELSE @,
                 !.connectionId =
                    IF data.connectionId # "" THEN data.connectionId
                    ELSE IF data.socketId # "" THEN data.socketId ELSE @,
                 !.currentRetries = 0,
                 !.autoConnects = 0,
                 !.episode = FALSE,
                 !.state = "connected"], "connected", "")
  ELSE emitData(t, "message", "", data)

\* onMessage without its early return for an envelope that has no action.
onMessage_emitWithoutAction(t, data) ==
  LET t1 == IF data.reqId # NoReq /\ t.callbacks[data.reqId] # Absent
              THEN _execCallback(t, data.reqId, "null", "envelope")
              ELSE t
  IN IF data.action = CONNECTED
       THEN emit([t1 EXCEPT
                    !.clientId = IF data.clientId # "" THEN data.clientId ELSE @,
                    !.connectionId =
                       IF data.connectionId # "" THEN data.connectionId
                       ELSE IF data.socketId # "" THEN data.socketId ELSE @,
                    !.currentRetries = 0,
                    !.autoConnects = 0,
                    !.episode = FALSE,
                    !.state = "connected"], "connected", "")
     ELSE emitData(t1, "message", "", data)

onMessage(t, data) ==
  LET t1 == IF data.reqId # NoReq /\ t.callbacks[data.reqId] # Absent
              THEN _execCallback(t, data.reqId, "null", "envelope")
              ELSE t
  IN IF data.action = NoAction THEN t1
     ELSE IF data.action = CONNECTED
       THEN emit([t1 EXCEPT
                    !.clientId = IF data.clientId # "" THEN data.clientId ELSE @,
                    !.connectionId =
                       IF data.connectionId # "" THEN data.connectionId
                       ELSE IF data.socketId # "" THEN data.socketId ELSE @,
                    !.currentRetries = 0,
                    !.autoConnects = 0,
                    !.episode = FALSE,
                    !.state = "connected"], "connected", "")
     ELSE emitData(t1, "message", "", data)

\* ------------------------------------------------------------ constructor
\* The completion function without its test for a token: it always connects.
authComplete_noTokenCheck(t, r, sync) ==
  IF r.err # "" THEN fail(t, r.err)
  ELSE LET t1 == IF r.kind = "string" THEN [t EXCEPT !.token = r.token] ELSE t
           t2 == IF r.kind = "object" /\ r.token # NoToken
                   THEN [t1 EXCEPT !.token = r.token] ELSE t1
       IN connect(t2, sync)

\* The completion function handed to options.authCallback.
authComplete(t, r, sync) ==
  IF r.err # "" THEN fail(t, r.err)
  ELSE LET t1 == IF r.kind = "string" THEN [t EXCEPT !.token = r.token] ELSE t
           t2 == IF r.kind = "object" /\ r.token # NoToken
                   THEN [t1 EXCEPT !.token = r.token] ELSE t1
       IN IF t2.token = NoToken THEN fail(t2, "No token received")
          ELSE connect(t2, sync)

\* The object as the constructor has it before it looks at authCallback.
Fresh(o) ==
  [options |-> o, state |-> "initialized", token |-> o.token, clientId |-> "",
   connectionId |-> "", socket |-> NoSocket,
   sockets |-> [s \in SocketIds |-> NoTransport],
   reconnectTimeout |-> NoTimer, timers |-> {}, currentRetries |-> 0,
   callbacks |-> [r \in ReqIds |-> Absent],
   reqTimer |-> [r \in ReqIds |-> "none"],
   calls |-> [r \in ReqIds |-> <<>>], autoConnects |-> 0, episode |-> FALSE,
   emitted |-> <<>>, thrown |-> FALSE, connects |-> 0, opened |-> FALSE,
   armed |-> FALSE, callerCb |-> <<>>]

\* The constructor without its test for a credential source.
Constructor_noAuthCheck(o, r) ==
  LET t0 == Fresh(o)
  IN IF o.authCallback # "none"
       THEN LET t1 == [t0 EXCEPT !.state = "connecting"]
                t2 == IF o.authCallback = "sync"
                        THEN authComplete(t1, r, TRUE) ELSE t1
            IN [t2 EXCEPT !.socket = NoSocket, !.reconnectTimeout = NoTimer,
                          !.currentRetries = 0,
                          !.callbacks = [q \in ReqIds |-> Absent]]
     ELSE IF ~o.noAutoConnect THEN connect(t0, TRUE)
     ELSE t0

\* new Connection(client, o); r is what a synchronous authCallback answers.
Constructor(o, r) ==
  LET t0 == Fresh(o)
  IN IF ~o.secret /\ o.token = NoToken /\ o.authCallback = "none"
       THEN [t0 EXCEPT !.thrown = TRUE]
     ELSE IF o.authCallback # "none"
       THEN LET t1 == [t0 EXCEPT !.state = "connecting"]
                t2 == IF o.authCallback = "sync"
                        THEN authComplete(t1, r, TRUE) ELSE t1
            IN [t2 EXCEPT !.socket = NoSocket, !.reconnectTimeout = NoTimer,
                          !.currentRetries = 0,
                          !.callbacks = [q \in ReqIds |-> Absent]]
     ELSE IF ~o.noAutoConnect THEN connect(t0, TRUE)
     ELSE t0

\* ---------------------------------------------------------------- actions
\* A transport nothing can reach any more is forgotten: it is not this.socket
\* and it is closed, or closing with no listener left.
Forget(t) ==
  [s \in SocketIds |->
     IF /\ s # t.socket
        /\ \/ t.sockets[s].readyState = "closed"
           \/ t.sockets[s].readyState = "closing" /\ t.sockets[s].listeners = {}
       THEN NoTransport ELSE t.sockets[s]]

\* The handler named op has run from the state of the variables to t.
Commit(t, op, arg, data, sock, auth) ==
  /\ options' = t.options
  /\ state' = t.state
  /\ token' = t.token
  /\ clientId' = t.clientId
  /\ connectionId' = t.connectionId
  /\ socket' = t.socket
  /\ sockets' = Forget(t)
  /\ reconnectTimeout' = t.reconnectTimeout
  /\ timers' = t.timers
  /\ currentRetries' = t.currentRetries
  /\ callbacks' = t.callbacks
  /\ reqTimer' = t.reqTimer
  /\ calls' = t.calls
  /\ autoConnects' = t.autoConnects
  /\ episode' = t.episode
  /\ last' = [op |-> op, arg |-> arg, data |-> data, sock |-> sock,
              auth |-> auth, preToken |-> token,
              preState |-> state, preRetries |-> currentRetries,
              preSocket |-> socket, preTimers |-> timers,
              preEntry |-> IF data.reqId \in ReqIds THEN callbacks[data.reqId]
                           ELSE Absent,
              emitted |-> t.emitted, thrown |-> t.thrown,
              connects |-> t.connects, opened |-> t.opened, armed |-> t.armed,
              callerCb |-> t.callerCb]

\* The object a constructor call over the option sets O returns.
InitOf(O) ==
  \E o \in O, r \in AuthResults :
    LET t == Constructor(o, r)
    IN /\ options = [secret |-> o.secret, autoReconnect |-> o.autoReconnect,
                     retriesAmount |-> o.retriesAmount]
       /\ state = t.state
       /\ token = t.token
       /\ clientId = t.clientId
       /\ connectionId = t.connectionId
       /\ socket = t.socket
       /\ sockets = t.sockets
       /\ reconnectTimeout = t.reconnectTimeout
       /\ timers = t.timers
       /\ currentRetries = t.currentRetries
       /\ callbacks = t.callbacks
       /\ reqTimer = t.reqTimer
       /\ calls = t.calls
       /\ autoConnects = 0
       /\ episode = FALSE
       /\ authPending = (o.authCallback = "async" /\ ~t.thrown)
       /\ constructed = ~t.thrown
       /\ last = [op |-> "constructor", arg |-> o.authCallback,
                  data |-> NoData, sock |-> NoSocket,
                  auth |-> IF o.authCallback = "sync" THEN r ELSE NoAuth,
                  preToken |-> o.token,
                  preState |-> "initialized", preRetries |-> 0,
                  preSocket |-> NoSocket, preTimers |-> {}, preEntry |-> Absent,
                  emitted |-> t.emitted, thrown |-> t.thrown,
                  connects |-> t.connects, opened |-> t.opened,
                  armed |-> t.armed, callerCb |-> t.callerCb]

Init == InitOf(OptionSets)

\* The asynchronous authCallback completes.
AuthComplete ==
  /\ constructed /\ authPending
  /\ \E r \in AuthResults, sync \in BOOLEAN :
       Commit(authComplete(This, r, sync), "authComplete", "", NoData, NoSocket, r)
  /\ authPending' = FALSE
  /\ UNCHANGED constructed

\* The host calls connect().
ManualConnect ==
  /\ constructed
  /\ \E sync \in BOOLEAN :
       Commit(connect(This, sync), "connect", "", NoData, NoSocket, NoAuth)
  /\ UNCHANGED <<authPending, constructed>>

\* The host calls close().
ManualClose ==
  /\ constructed
  /\ \E sync \in BOOLEAN :
       Commit(close(This, sync), "close", IF sync THEN "sync" ELSE "async",
              NoData, NoSocket, NoAuth)
  /\ UNCHANGED <<authPending, constructed>>

\* The reconnection timer h fires.
ReconnectTimerFire ==
  /\ constructed
  /\ \E h \in timers, sync \in BOOLEAN :
       Commit(_reconnect([This EXCEPT !.timers = @ \ {h}], sync),
              "reconnectTimer", "", NoData, NoSocket, NoAuth)
  /\ UNCHANGED <<authPending, constructed>>

\* The transport s reports open.
TransportOpen ==
  /\ constructed
  /\ \E s \in SocketIds :
       /\ sockets[s].readyState = "opening"
       /\ LET t1 == [This EXCEPT !.sockets[s].readyState = "open",
                                 !.sockets[s].listeners = @ \ {OnceOpen}]
          IN Commit(IF OnceOpen \in sockets[s].listeners THEN onOpen(t1) ELSE t1,
                    "open", "", NoData, s, NoAuth)
  /\ UNCHANGED <<authPending, constructed>>

\* The transport s reports an error to the listeners it has.
TransportError ==
  /\ constructed
  /\ \E s \in SocketIds, err \in {"TransportError", "other"},
        listening \in BOOLEAN :
       /\ sockets[s].readyState \in {"opening", "open", "closing"}
       /\ sockets[s].listeners \cap {OnceError, OnError} # {}
       /\ LET t1 == [This EXCEPT !.sockets[s].listeners = @ \ {OnceError}]
              t2 == IF OnceError \in sockets[s].listeners
                      THEN connectError(t1, err) ELSE t1
              t3 == IF OnError \in sockets[s].listeners
                      THEN onError(t2, err, listening) ELSE t2
          IN Commit(t3, "error", err, NoData, s, NoAuth)
  /\ UNCHANGED <<authPending, constructed>>

\* The transport s reports that it has closed.
TransportClose ==
  /\ constructed
  /\ \E s \in SocketIds :
       /\ sockets[s].readyState \in {"opening", "open", "closing"}
       /\ LET t1 == [This EXCEPT !.sockets[s].readyState = "closed"]
          IN Commit(IF OnClose \in sockets[s].listeners THEN onClose(t1) ELSE t1,
                    "transportClose", "", NoData, s, NoAuth)
  /\ UNCHANGED <<authPending, constructed>>

\* The transport s delivers an envelope of E.
Deliver(E) ==
  /\ constructed
  /\ \E s \in SocketIds, data \in E :
       /\ sockets[s].readyState \in {"open", "closing"}
       /\ OnMessage \in sockets[s].listeners
       /\ Commit(onMessage(This, data), "message", "", data, s, NoAuth)
  /\ UNCHANGED <<authPending, constructed>>

TransportMessage == Deliver(Envelopes)

\* A caller registers a handler with _addCallback(reqId, cb, timeout).
AddCallback ==
  /\ constructed
  /\ \E reqId \in ReqIds :
       Commit(_addCallback(This, reqId, "function"), "addCallback", "",
              [NoData EXCEPT !.reqId = reqId], NoSocket, NoAuth)
  /\ UNCHANGED <<authPending, constructed>>

\* A caller registers a handler that calls _execCallback for its own reqId.
AddReentrantCallback ==
  /\ constructed
  /\ \E reqId \in ReqIds :
       Commit(_addCallback(This, reqId, "reentrant"), "addCallback", "reentrant",
              [NoData EXCEPT !.reqId = reqId], NoSocket, NoAuth)
  /\ UNCHANGED <<authPending, constructed>>

\* A caller calls _execCallback(reqId, err, data).
ExecCallback ==
  /\ constructed
  /\ \E reqId \in ReqIds, err \in {"null", "explicit"} :
       Commit(_execCallback(This, reqId, err, "result"), "execCallback", err,
              [NoData EXCEPT !.reqId = reqId], NoSocket, NoAuth)
  /\ UNCHANGED <<authPending, constructed>>

\* A caller calls sendCallback(message, cb, timeout); randomReqId answers reqId.
SendCallback ==
  /\ constructed
  /\ \E message \in {"object", "string"}, cb \in {"function", "undefined"},
        reqId \in RandomReqIds :
       Commit(sendCallback(This, message, cb, reqId), "sendCallback",
              message \o "," \o cb, [NoData EXCEPT !.reqId = reqId], NoSocket, NoAuth)
  /\ UNCHANGED <<authPending, constructed>>

\* The timeout timer of the entry registered for reqId expires.
RequestTimerFire ==
  /\ constructed
  /\ \E reqId \in ReqIds :
       /\ reqTimer[reqId] = "armed"
       /\ Commit(requestTimeout(This, reqId), "requestTimer", "",
                 [NoData EXCEPT !.reqId = reqId], NoSocket, NoAuth)
  /\ UNCHANGED <<authPending, constructed>>

Next ==
  \/ AuthComplete
  \/ ManualConnect
  \/ ManualClose
  \/ ReconnectTimerFire
  \/ TransportOpen
  \/ TransportError
  \/ TransportClose
  \/ TransportMessage
  \/ AddCallback
  \/ AddReentrantCallback
  \/ ExecCallback
  \/ SendCallback
  \/ RequestTimerFire

Spec == Init /\ [][Next]_vars

\* The connection lifecycle alone: every constructor call, every transport
\* event and timer, envelopes without reqId, and an idle callback registry.
PlainMessage == Deliver(PlainEnvelopes)

NextLifecycle ==
  \/ AuthComplete
  \/ ManualConnect
  \/ ManualClose
  \/ ReconnectTimerFire
  \/ TransportOpen
  \/ TransportError
  \/ TransportClose
  \/ PlainMessage

SpecLifecycle == Init /\ [][NextLifecycle]_vars

\* The callback registry over one connection: a constructor call with a
\* secret, the registry's operations and timers, every envelope without
\* identity fields, and the transport events that open and end the session.
RegistryOptions ==
  [secret : {TRUE}, token : {NoToken}, authCallback : {"none"},
   noAutoConnect : BOOLEAN, autoReconnect : {TRUE},
   retriesAmount : {MaxRetries}]

RegistryMessage == Deliver(PlainEnvelopes \cup CorrelatedEnvelopes)

NextRegistry ==
  \/ AddCallback
  \/ SendCallback
  \/ RequestTimerFire
  \/ RegistryMessage
  \/ ManualConnect
  \/ TransportOpen
  \/ TransportClose

SpecRegistry == InitOf(RegistryOptions) /\ [][NextRegistry]_vars

\* The handshake over one connection: a constructor call with a secret, every
\* handshake envelope with and without identity fields, and the transport
\* events and timers that end a session and start the next.
IdentityMessage == Deliver(IdentityEnvelopes \cup PlainEnvelopes)

NextHandshake ==
  \/ IdentityMessage
  \/ ManualConnect
  \/ ReconnectTimerFire
  \/ TransportOpen
  \/ TransportClose

SpecHandshake == InitOf(RegistryOptions) /\ [][NextHandshake]_vars

\* The callback registry with handlers that call back into it: both kinds of
\* handler, _execCallback called by a caller, by an envelope and by the timer.
NextReentry ==
  \/ AddCallback
  \/ AddReentrantCallback
  \/ ExecCallback
  \/ RequestTimerFire
  \/ RegistryMessage
  \/ TransportOpen

SpecReentry == InitOf(RegistryOptions) /\ [][NextReentry]_vars

TypeOK ==
  /\ state \in States
  /\ socket \in SocketIds \cup {NoSocket}
  /\ currentRetries \in 0..MaxRetries

\* ------------------------------------------------------------------ claims
\* The request id the handler that ran last was about.
LastReq == last.data.reqId

\* C1: a handler registered with _addCallback whose timer expires before any
\* envelope with its reqId arrives is completed exactly once, with the timeout
\* error, and its entry is removed from the registry.
C1_TimeoutCompletesOnce ==
  (last.op = "requestTimer" /\ last.preEntry = "function")
    => /\ callbacks[LastReq] = Absent
       /\ calls[LastReq] = << <<"timeout", "null">> >>

\* C2: when an envelope arrives with the reqId sendCallback gave a message, the
\* cb the caller passed is invoked with (null, envelope) and the entry is
\* removed. (An entry whose stored cb is the message object is one that
\* sendCallback registered.)
C2_ResponseReachesCaller ==
  (last.op = "message" /\ last.preEntry = "object")
    => /\ callbacks[LastReq] = Absent
       /\ last.callerCb = << <<"null", "envelope">> >>

\* C9: _addCallback for a reqId that has a pending entry throws and leaves the
\* registry as it was: the entry, the handler's record and the timer.
C9_DuplicateThrows ==
  [][(last'.op \in {"addCallback", "sendCallback"}
        /\ last'.arg \in {"", "object,function"}
        /\ callbacks[last'.data.reqId] # Absent)
       => (last'.thrown /\ UNCHANGED <<callbacks, reqTimer, calls>>)]_vars

C9_Witness ==
  /\ last.op = "addCallback"
  /\ last.preEntry = "function"
  /\ last.thrown
  /\ callbacks[LastReq] = "function"
  /\ reqTimer[LastReq] = "armed"

\* The retry budget is used up.
Exhausted(n) == n >= options.retriesAmount

\* C3: between two handshakes the reconnection timer calls connect() at most
\* retriesAmount times; a handler that starts with the budget used up arms no
\* reconnection timer, and a timer fire in it does not call connect().
C3_RetryCeiling ==
  /\ autoConnects <= options.retriesAmount
  /\ Exhausted(last.preRetries)
       => /\ ~last.armed
          /\ last.op = "reconnectTimer" => last.connects = 0

\* The timer has called connect() retriesAmount times, the last attempt failed
\* with a transport error and _setupReconnect scheduled nothing.
C3_Witness ==
  /\ options.retriesAmount > 0
  /\ autoConnects = options.retriesAmount
  /\ Exhausted(last.preRetries)
  /\ last.op = "error" /\ last.arg = "TransportError"
  /\ state = "failed"
  /\ timers = {}

\* C4: when close() has been called in state connected and the transport then
\* reports its close, the state becomes closed and no reconnection timer is
\* scheduled.
C4_CloseReachesClosed ==
  [][(/\ last.op = "close" /\ last.preState = "connected"
      /\ last'.op = "transportClose" /\ last'.sock = socket)
       => (state' = "closed" /\ ~last'.armed)]_vars

\* C5: once close() has been called (the state is closing or closed), a fire of
\* the reconnection timer does not call connect().
C5_NoReconnectAfterClose ==
  (last.op = "reconnectTimer" /\ last.preState \in {"closing", "closed"})
    => last.connects = 0

\* C6: a handshake envelope resets currentRetries, sets the state to connected,
\* and is never processed in state closing or closed.
C6_HandshakeNotAfterClose ==
  (last.op = "message" /\ last.data.action = CONNECTED)
    => /\ state = "connected"
       /\ currentRetries = 0
       /\ last.preState \notin {"closing", "closed"}

\* The message events the handler that ran last emitted.
MessageEvents == SelectSeq(last.emitted, LAMBDA e : e.event = "message")

\* C7 as stated: an envelope without an action is emitted as a message event
\* carrying the envelope, as one with a non-handshake action is.
C7_NoActionEmitsMessage ==
  (last.op = "message" /\ last.data.action # CONNECTED)
    => MessageEvents = <<[event |-> "message", arg |-> "", data |-> last.data]>>

\* C7 amended: an envelope without an action emits nothing and changes no
\* state of the connection; one with a non-handshake action is emitted as one
\* message event carrying the envelope.
C7_OnlyActionsEmitMessage ==
  /\ (last.op = "message" /\ last.data.action = NoAction)
       => /\ last.emitted = <<>>
          /\ state = last.preState
          /\ currentRetries = last.preRetries
  /\ (last.op = "message" /\ last.data.action \notin {NoAction, CONNECTED})
       => last.emitted = <<[event |-> "message", arg |-> "", data |-> last.data]>>

C7_Witness ==
  /\ last.op = "message"
  /\ last.data.action = NoAction
  /\ last.data.reqId = NoReq
  /\ last.emitted = <<>>

\* C8: when this.socket is a transport connect() opened, every other transport
\* has had its listeners removed and has been asked to close.
C8_OneLiveTransport ==
  socket # NoSocket
    => \A s \in SocketIds \ {socket} :
         /\ sockets[s].listeners = {}
         /\ sockets[s].readyState \in {"none", "closing", "closed"}

\* The handler that ran last was the authCallback's completion function,
\* called from inside the constructor or later.
AuthCompleted ==
  last.op = "authComplete" \/ (last.op = "constructor" /\ last.arg = "sync")

\* The completion failed the connection with reason: the state is failed, one
\* failed event carries the reason, no transport was opened, no timer armed.
AuthFailed(reason) ==
  /\ state = "failed"
  /\ last.emitted = <<[event |-> "failed", arg |-> reason, data |-> NoData]>>
  /\ ~last.opened
  /\ ~last.armed
  /\ timers = last.preTimers

\* C10 as stated: an error or a result without a usable token fails the
\* connection; a result with a token has the token adopted and connect() called.
C10_AuthResult ==
  AuthCompleted =>
    /\ last.auth.err # "" => AuthFailed(last.auth.err)
    /\ (last.auth.err = "" /\ last.auth.token = NoToken)
         => AuthFailed("No token received")
    /\ (last.auth.err = "" /\ last.auth.token # NoToken)
         => (token = last.auth.token /\ last.connects = 1)

\* The result leaves this.token empty: it brings no token, and either the
\* options brought none or the result is a string, which replaces it.
LeavesNoToken ==
  /\ last.auth.err = ""
  /\ last.auth.token = NoToken
  /\ last.preToken = NoToken \/ last.auth.kind = "string"

\* C10 amended: a result without a usable token fails the connection when it
\* leaves this.token empty; when the options passed a token and the result is
\* no string, that token stays and connect() is called.
C10_AuthResultAmended ==
  AuthCompleted =>
    /\ last.auth.err # "" => AuthFailed(last.auth.err)
    /\ LeavesNoToken => AuthFailed("No token received")
    /\ (last.auth.err = "" /\ last.auth.token = NoToken /\ ~LeavesNoToken)
         => (token = last.preToken /\ last.connects = 1)
    /\ (last.auth.err = "" /\ last.auth.token # NoToken)
         => (token = last.auth.token /\ last.connects = 1)

C10_Witness ==
  /\ last.op = "authComplete"
  /\ LeavesNoToken
  /\ options.secret
  /\ options.retriesAmount > 0
  /\ AuthFailed("No token received")

\* C11: no call of connect() or close(), no transport handler and no fire of
\* the reconnection timer throws.
C11_NeverThrows ==
  last.op \in {"connect", "close", "open", "transportClose", "error", "message",
               "reconnectTimer"}
    => ~last.thrown

\* C13: a constructor call whose options hold no secret, no token and no
\* authCallback throws; it opens no transport and starts no authCallback and
\* no timer, and nothing runs on the object afterwards.
C13_NoCredentialsThrows ==
  /\ (last.op = "constructor" /\ ~options.secret /\ last.preToken = NoToken
        /\ last.arg = "none")
       => /\ last.thrown
          /\ ~constructed
  /\ ~constructed
       => /\ last.op = "constructor"
          /\ state = "initialized"
          /\ ~last.opened
          /\ \A s \in SocketIds : sockets[s] = NoTransport
          /\ timers = {}
          /\ \A r \in ReqIds : reqTimer[r] = "none"
          /\ ~authPending

C13_Witness ==
  /\ last.op = "constructor"
  /\ ~options.secret /\ last.preToken = NoToken /\ last.arg = "none"
  /\ last.thrown
  /\ ~constructed

\* C17: a fire of the reconnection timer with autoReconnect disabled, or in
\* state connecting or connected, calls no connect(), changes no state, does
\* not increment currentRetries and opens no transport.
C17_IdleTimerFire ==
  /\ (/\ last.op = "reconnectTimer"
      /\ ~options.autoReconnect \/ last.preState \in {"connecting", "connected"})
       => /\ last.connects = 0
          /\ state = last.preState
          /\ currentRetries <= last.preRetries
          /\ ~last.opened
          /\ socket = last.preSocket
          /\ ~last.armed
  /\ (~options.autoReconnect /\ last.connects > 0)
       => last.op \in {"constructor", "authComplete", "connect"}
  /\ ~options.autoReconnect => autoConnects = 0

\* The timer fires in state failed with budget left and autoReconnect off.
C17_Witness ==
  /\ last.op = "reconnectTimer"
  /\ ~options.autoReconnect
  /\ last.preState = "failed"
  /\ last.preRetries < options.retriesAmount
  /\ state = "failed"
  /\ last.connects = 0

\* C18: at most one reconnection timer is pending, and it is the one
\* this.reconnectTimeout holds.
C18_OneTimer ==
  /\ Cardinality(timers) <= 1
  /\ timers \subseteq {reconnectTimeout}

\* The policy was armed while a timer was pending: one timer is pending still.
C18_Witness ==
  /\ last.armed
  /\ last.preTimers # {}
  /\ Cardinality(timers) = 1

\* C19: a manual connect() leaves currentRetries as it was; only a fire of the
\* reconnection timer increments it, and only a handshake or a timer fire in
\* state connected resets it.
C19_ConnectKeepsRetries ==
  /\ last.op = "connect" => currentRetries = last.preRetries
  /\ currentRetries > last.preRetries
       => (last.op = "reconnectTimer" /\ currentRetries = last.preRetries + 1)
  /\ currentRetries < last.preRetries
       => /\ currentRetries = 0
          /\ \/ last.op = "message" /\ last.data.action = CONNECTED
             \/ last.op = "reconnectTimer" /\ last.preState = "connected"

\* A manual connect() opens a transport in the middle of the retry loop.
C19_Witness ==
  /\ last.op = "connect"
  /\ last.opened
  /\ last.preRetries > 0
  /\ currentRetries = last.preRetries

\* C14: a transport error that arrives in state connecting, before or after
\* the transport's open event, makes the state failed, emits one failed event
\* and leaves a reconnection timer pending unless the budget is exhausted.
C14_ConnectingErrorArms ==
  (/\ last.op = "error"
   /\ last.arg = "TransportError"
   /\ last.sock = last.preSocket
   /\ last.preState = "connecting")
    => /\ state = "failed"
       /\ \E i \in 1..Len(last.emitted) : last.emitted[i].event = "failed"
       /\ Exhausted(last.preRetries) \/ timers # {}

\* C20: with autoReconnect enabled and retry budget left, after an unexpected
\* close the connection is never left in connecting, disconnected or failed
\* with nothing pending that could move it on: a reconnection timer, or a
\* transport that can still report an event.
C20_RetryLoopGoesOn ==
  (/\ options.autoReconnect
   /\ episode
   /\ state \in {"connecting", "disconnected", "failed"}
   /\ ~Exhausted(currentRetries))
    => \/ timers # {}
       \/ \E s \in SocketIds :
            sockets[s].readyState \in {"opening", "open", "closing"}

\* C12: a handshake envelope makes the connection adopt the envelope's
\* clientId when it has one, and its connectionId, or else its socketId, when
\* it has one; the fields the envelope does not supply keep their values; one
\* connected event and no message event is emitted.
C12_HandshakeAdoptsIdentity ==
  [][(last'.op = "message" /\ last'.data.action = CONNECTED)
       => /\ clientId' = IF last'.data.clientId # "" THEN last'.data.clientId
                         ELSE clientId
          /\ connectionId' =
               IF last'.data.connectionId # "" THEN last'.data.connectionId
               ELSE IF last'.data.socketId # "" THEN last'.data.socketId
               ELSE connectionId
          /\ state' = "connected"
          /\ currentRetries' = 0
          /\ Len(last'.emitted) = 1
          /\ last'.emitted[1].event = "connected"]_vars

\* A handshake that carries only the legacy socketId, after one that set the
\* clientId: the clientId is kept and the socketId is the connectionId.
C12_Witness ==
  /\ last.op = "message"
  /\ last.data.action = CONNECTED
  /\ last.data.clientId = "" /\ last.data.connectionId = ""
  /\ last.data.socketId = "s7"
  /\ clientId = "c1"
  /\ connectionId = "s7"
  /\ Len(last.emitted) = 1
  /\ last.emitted[1].event = "connected"

C16_HandlerAtMostOnce ==
  /\ \A r \in ReqIds : Len(calls[r]) <= 1
  /\ (last.op = "execCallback" /\ last.preEntry = Absent)
       => (callbacks[LastReq] = Absent /\ ~last.thrown /\ last.emitted = <<>>)
  /\ \A r \in ReqIds : callbacks[r] = Absent => reqTimer[r] # "armed"

====
